---- MODULE Spec2Model ----
(***************************************************************************)
(* SingleLinkedList<Type> (src/SingleLinkedList.h) as a state machine.     *)
(*                                                                         *)
(* Memory is modelled explicitly: every Node lives at an address, the      *)
(* sentinel head_ of list l lives at the address HeadAddr(l), and          *)
(* next_node / value are the fields of the nodes.  A list object is its    *)
(* sentinel plus its size_ field; both exist while the object is alive.    *)
(* An iterator is the address it holds (BasicIterator::node_): nullptr     *)
(* for end(), HeadAddr(l) for before_begin(), a node address otherwise.    *)
(*                                                                         *)
(* The methods are functions from memory to memory; the actions apply      *)
(* them to the memory of the program.  A call that throws before it has    *)
(* changed anything (`new Node` in PushFront and InsertAfter) or that      *)
(* rolls everything back leaves the state as it is: a stuttering step.     *)
(*                                                                         *)
(* The language level is C++17 (the header uses [[nodiscard]]), so in      *)
(* `++node_it = InsertAfter(node_it, val)` the right operand is evaluated  *)
(* before the left one.                                                    *)
(***************************************************************************)
EXTENDS Integers, Sequences, FiniteSets, TLC

\* ---- bounds ----
MaxNodes == 3          \* capacity of the free store (number of node addresses)
MaxVal == 2            \* element values are 1..MaxVal
MaxLen == 2            \* longest initializer_list handed to the constructor

\* ---- addresses and objects ----
Lists == {1, 2}        \* the list objects of the client program
TmpCopy == 3           \* the local `tmp` of CopyList
TmpAssign == 4         \* the local `tmp` of operator=
Nodes == 1..MaxNodes
Values == 1..MaxVal
nullptr == 0
HeadAddr(l) == 0 - l   \* &head_ of list l

VARIABLES
    next_node,  \* Node::next_node of the sentinel of every live list and of every allocated node
    value,      \* Node::value of every allocated node
    size_,      \* SingleLinkedList::size_ of every live list
    net,        \* history: nodes spliced into minus nodes spliced out of the chain a list holds
    outcome     \* what the last call that left the lists alone produced: the result of a
                \* comparison, the members of a list whose constructor threw, or the
                \* frame of the Clear() call that is running

vars == <<next_node, value, size_, net, outcome>>

\* ---- traversal helpers ----
RECURSIVE Walk(_, _, _)
\* the addresses visited by a begin()..end() traversal that starts at node p
Walk(nx, p, fuel) ==
    IF p = nullptr \/ p \notin DOMAIN nx \/ fuel = 0 THEN <<>>
    ELSE <<p>> \o Walk(nx, nx[p], fuel - 1)

Range(s) == {s[i] : i \in 1..Len(s)}

\* the nodes of the chain that starts at the sentinel of l, in traversal order
ChainOf(m, l) == Walk(m.next_node, m.next_node[HeadAddr(l)], MaxNodes + 1)
\* the values read by `for (const auto& val : list)`
ElemsOf(m, l) == LET c == ChainOf(m, l) IN [i \in 1..Len(c) |-> m.value[c[i]]]

\* the list whose chain (sentinel included) holds address p; 0 if none
Owner(m, p) ==
    LET holders == {l \in DOMAIN m.size_ :
                        p = HeadAddr(l) \/ p \in Range(ChainOf(m, l))}
    IN IF holders = {} THEN 0 ELSE CHOOSE l \in holders : TRUE

Bump(f, l, d) == IF l \in DOMAIN f THEN [f EXCEPT ![l] = @ + d] ELSE f

Restrict(f, S) == [x \in S |-> f[x]]

\* the memory as one record, so that the methods compose
Mem == [next_node |-> next_node, value |-> value, size_ |-> size_, net |-> net]

\* the memory before any list exists
Mem0 == [next_node |-> <<>>, value |-> <<>>, size_ |-> <<>>, net |-> <<>>]

Live(m) == DOMAIN m.size_
Allocated(m) == DOMAIN m.value
Free(m) == Nodes \ Allocated(m)

\* ---- the methods, as functions on the memory ----

\* InsertAfter that builds the node with an empty link: new Node(value, nullptr)
InsertAfterDropTail(m, this, pos, val, addr) ==
    [next_node |-> (addr :> nullptr) @@ [m.next_node EXCEPT ![pos] = addr],
     value     |-> (addr :> val) @@ m.value,
     size_     |-> [m.size_ EXCEPT ![this] = @ + 1],
     net       |-> Bump(m.net, Owner(m, pos), 1)]

\* InsertAfter that counts the node for the list whose chain holds pos
InsertAfterCountsOwner(m, this, pos, val, addr) ==
    [next_node |-> (addr :> m.next_node[pos]) @@ [m.next_node EXCEPT ![pos] = addr],
     value     |-> (addr :> val) @@ m.value,
     size_     |-> Bump(m.size_, Owner(m, pos), 1),
     net       |-> Bump(m.net, Owner(m, pos), 1)]

\* Iterator InsertAfter(ConstIterator pos, const Type& value); addr is what `new` returned
InsertAfter(m, this, pos, val, addr) ==
    [next_node |-> (addr :> m.next_node[pos]) @@ [m.next_node EXCEPT ![pos] = addr],
     value     |-> (addr :> val) @@ m.value,
     size_     |-> [m.size_ EXCEPT ![this] = @ + 1],
     net       |-> Bump(m.net, Owner(m, pos), 1)]

\* the iterator InsertAfter returns: Iterator(insert_node)
InsertAfterRet(m, this, pos, val, addr) == addr

\* EraseAfter without --size_
EraseAfterNoCount(m, this, pos) ==
    LET temp == m.next_node[pos]
        keep == DOMAIN m.next_node \ {temp}
    IN [next_node |-> Restrict([m.next_node EXCEPT ![pos] = m.next_node[temp]], keep),
        value     |-> Restrict(m.value, DOMAIN m.value \ {temp}),
        size_     |-> m.size_,
        net       |-> Bump(m.net, Owner(m, pos), 0 - 1)]

\* Iterator EraseAfter(ConstIterator pos)
EraseAfter(m, this, pos) ==
    LET temp == m.next_node[pos]
        keep == DOMAIN m.next_node \ {temp}
    IN [next_node |-> Restrict([m.next_node EXCEPT ![pos] = m.next_node[temp]], keep),
        value     |-> Restrict(m.value, DOMAIN m.value \ {temp}),
        size_     |-> [m.size_ EXCEPT ![this] = @ - 1],
        net       |-> Bump(m.net, Owner(m, pos), 0 - 1)]

\* the iterator EraseAfter returns: Iterator(pos.node_->next_node), read after the splice
EraseAfterRet(m, this, pos) == EraseAfter(m, this, pos).next_node[pos]

\* PushFront without ++size_
PushFrontNoCount(m, this, val, addr) ==
    [next_node |-> (addr :> m.next_node[HeadAddr(this)])
                     @@ [m.next_node EXCEPT ![HeadAddr(this)] = addr],
     value     |-> (addr :> val) @@ m.value,
     size_     |-> m.size_,
     net       |-> Bump(m.net, this, 1)]

\* PushFront that forgets the old chain: head_.next_node = new Node(value, nullptr)
PushFrontDropChain(m, this, val, addr) ==
    [next_node |-> (addr :> nullptr) @@ [m.next_node EXCEPT ![HeadAddr(this)] = addr],
     value     |-> (addr :> val) @@ m.value,
     size_     |-> [m.size_ EXCEPT ![this] = @ + 1],
     net       |-> Bump(m.net, this, 1)]

\* PushFront that links the node behind the first element when there is one
PushFrontBehindFirst(m, this, val, addr) ==
    LET first == m.next_node[HeadAddr(this)]
        at == IF first = nullptr THEN HeadAddr(this) ELSE first
    IN [next_node |-> (addr :> m.next_node[at]) @@ [m.next_node EXCEPT ![at] = addr],
        value     |-> (addr :> val) @@ m.value,
        size_     |-> [m.size_ EXCEPT ![this] = @ + 1],
        net       |-> Bump(m.net, this, 1)]

\* void PushFront(const Type& value)
PushFront(m, this, val, addr) ==
    [next_node |-> (addr :> m.next_node[HeadAddr(this)])
                     @@ [m.next_node EXCEPT ![HeadAddr(this)] = addr],
     value     |-> (addr :> val) @@ m.value,
     size_     |-> [m.size_ EXCEPT ![this] = @ + 1],
     net       |-> Bump(m.net, this, 1)]

\* size_t GetSize() const noexcept
GetSizeOf(m, this) == m.size_[this]

\* Iterator begin() noexcept: Iterator(head_.next_node)
begin(m, this) == m.next_node[HeadAddr(this)]

\* Iterator end() noexcept: Iterator(nullptr)
end(m, this) == nullptr

\* Iterator before_begin() noexcept
before_begin(this) == HeadAddr(this)

\* PopFront that removes the second element when there is one
PopFrontSecond(m, this) ==
    LET first == m.next_node[HeadAddr(this)]
    IN IF m.next_node[first] = nullptr THEN EraseAfter(m, this, HeadAddr(this))
       ELSE EraseAfter(m, this, first)

\* void PopFront()
PopFront(m, this) == EraseAfter(m, this, before_begin(this))

\* Clear that only resets the members and destroys no node
ClearMembersOnly(m, this) ==
    [next_node |-> [m.next_node EXCEPT ![HeadAddr(this)] = nullptr],
     value     |-> m.value,
     size_     |-> [m.size_ EXCEPT ![this] = 0],
     net       |-> [m.net EXCEPT ![this] = 0]]

RECURSIVE Clear(_, _)
\* void Clear()
Clear(m, this) ==
    IF m.next_node[HeadAddr(this)] # nullptr THEN Clear(PopFront(m, this), this) ELSE m

\* swap that exchanges the counts but not the links
swapCountsOnly(m, this, other) ==
    [next_node |-> m.next_node,
     value     |-> m.value,
     size_     |-> [m.size_ EXCEPT ![this] = m.size_[other], ![other] = m.size_[this]],
     net       |-> m.net]

\* swap that exchanges the links but not the counts
swapLinksOnly(m, this, other) ==
    [next_node |-> [m.next_node EXCEPT ![HeadAddr(this)] = m.next_node[HeadAddr(other)],
                                       ![HeadAddr(other)] = m.next_node[HeadAddr(this)]],
     value     |-> m.value,
     size_     |-> m.size_,
     net       |-> [m.net EXCEPT ![this] = m.net[other], ![other] = m.net[this]]]

\* void swap(SingleLinkedList& other)
swap(m, this, other) ==
    [next_node |-> [m.next_node EXCEPT ![HeadAddr(this)] = m.next_node[HeadAddr(other)],
                                       ![HeadAddr(other)] = m.next_node[HeadAddr(this)]],
     value     |-> m.value,
     size_     |-> [m.size_ EXCEPT ![this] = m.size_[other], ![other] = m.size_[this]],
     net       |-> [m.net EXCEPT ![this] = m.net[other], ![other] = m.net[this]]]

\* void swap(SingleLinkedList<Type>& lhs, SingleLinkedList<Type>& rhs) noexcept
FreeSwap(m, lhs, rhs) == swap(m, lhs, rhs)

\* a list object comes to life: Node head_ = {}; size_t size_ = 0;
Construct(m, l) ==
    [next_node |-> (HeadAddr(l) :> nullptr) @@ m.next_node,
     value     |-> m.value,
     size_     |-> (l :> 0) @@ m.size_,
     net       |-> (l :> 0) @@ m.net]

\* the storage of a list object is given back when its lifetime ends
Release(m, l) ==
    [next_node |-> Restrict(m.next_node, DOMAIN m.next_node \ {HeadAddr(l)}),
     value     |-> m.value,
     size_     |-> Restrict(m.size_, DOMAIN m.size_ \ {l}),
     net       |-> Restrict(m.net, DOMAIN m.net \ {l})]

\* a destructor with an empty body: the nodes of the list are not destroyed
DestroyNoClear(m, l) ==
    Release(m, l)

\* ~SingleLinkedList()
Destroy(m, l) == Release(Clear(m, l), l)

RECURSIVE DestroyAll(_)
\* the end of the scope of the client's lists: every live list is destroyed
DestroyAll(m) ==
    IF Live(m) = {} THEN m
    ELSE DestroyAll(Destroy(m, CHOOSE l \in Live(m) : TRUE))

RECURSIVE CopyLoopNoAdvance(_, _, _, _, _, _, _, _)
\* the loop of CopyList with node_it never advanced: every element goes in at the front
CopyLoopNoAdvance(m, this, tmp, node_it, vals, addrs, failAt, i) ==
    IF i > Len(vals) THEN [mem |-> m, threw |-> FALSE]
    ELSE IF i = failAt THEN [mem |-> m, threw |-> TRUE]
    ELSE LET m1 == InsertAfter(m, this, node_it, vals[i], addrs[i])
             m2 == [m1 EXCEPT !.size_[tmp] = @ + 1]
         IN CopyLoopNoAdvance(m2, this, tmp, node_it, vals, addrs, failAt, i + 1)

RECURSIVE CopyLoop(_, _, _, _, _, _, _, _)
\* the for loop of CopyList; failAt is the element whose `new Node` throws (0: none)
CopyLoop(m, this, tmp, node_it, vals, addrs, failAt, i) ==
    IF i > Len(vals) THEN [mem |-> m, threw |-> FALSE]
    ELSE IF i = failAt THEN [mem |-> m, threw |-> TRUE]
    ELSE LET m1 == InsertAfter(m, this, node_it, vals[i], addrs[i])
             m2 == [m1 EXCEPT !.size_[tmp] = @ + 1]
         IN CopyLoop(m2, this, tmp, InsertAfterRet(m, this, node_it, vals[i], addrs[i]),
                     vals, addrs, failAt, i + 1)

\* CopyList up to the end of its body: tmp built, then swap(tmp) unless an element threw
CopyListBody(m, this, vals, addrs, failAt) ==
    LET r == CopyLoop(Construct(m, TmpCopy), this, TmpCopy, before_begin(TmpCopy),
                      vals, addrs, failAt, 1)
    IN [mem |-> IF r.threw THEN r.mem ELSE swap(r.mem, this, TmpCopy), threw |-> r.threw]

\* template <typename TList> void CopyList(TList& other), other read as vals;
\* tmp is destroyed when the scope is left, normally or by the exception
CopyList(m, this, vals, addrs, failAt) ==
    LET r == CopyListBody(m, this, vals, addrs, failAt)
    IN [mem |-> Destroy(r.mem, TmpCopy), threw |-> r.threw]

\* SingleLinkedList(std::initializer_list<Type> values); the result still holds the
\* members of the list under construction when the constructor threw
InitListConstruct(m, this, vals, addrs, failAt) ==
    CopyList(Construct(m, this), this, vals, addrs, failAt)

\* a copy constructor that copies the members, so that both lists share one chain
CopyConstructShallow(m, this, other, addrs, failAt) ==
    LET m0 == Construct(m, this)
    IN [mem |-> [next_node |-> [m0.next_node EXCEPT ![HeadAddr(this)] = m.next_node[HeadAddr(other)]],
                 value     |-> m0.value,
                 size_     |-> [m0.size_ EXCEPT ![this] = m.size_[other]],
                 net       |-> [m0.net EXCEPT ![this] = m.net[other]]],
        threw |-> FALSE]

\* SingleLinkedList(const SingleLinkedList& other)
CopyConstruct(m, this, other, addrs, failAt) ==
    CopyList(Construct(m, this), this, ElemsOf(m, other), addrs, failAt)

\* the object expression `SingleLinkedList l(...)`: when the constructor throws, the
\* object never comes to life and its storage is given back
Constructed(r, l) == IF r.threw THEN Release(r.mem, l) ELSE r.mem

\* an assignment that clears the target first and then copies into it
AssignClearFirst(m, this, rhs, addrs, failAt) ==
    IF this = rhs THEN [mem |-> m, threw |-> FALSE]
    ELSE LET m0 == Clear(m, this)
             r  == CopyLoop(m0, this, this, before_begin(this), ElemsOf(m, rhs), addrs, failAt, 1)
         IN [mem |-> [r.mem EXCEPT !.size_[this] = Len(ChainOf(r.mem, this))], threw |-> r.threw]

\* SingleLinkedList& operator=(const SingleLinkedList& rhs)
Assign(m, this, rhs, addrs, failAt) ==
    IF this = rhs THEN [mem |-> m, threw |-> FALSE]
    ELSE LET r == CopyConstruct(m, TmpAssign, rhs, addrs, failAt)
         IN IF r.threw
            THEN [mem |-> Release(r.mem, TmpAssign), threw |-> TRUE]
            ELSE [mem |-> Destroy(swap(r.mem, this, TmpAssign), TmpAssign), threw |-> FALSE]

RECURSIVE StdEqual(_, _, _)
\* std::equal(first1, last1 = end(), first2); "ub" when first2 is dereferenced at end()
StdEqual(m, first1, first2) ==
    IF first1 = nullptr THEN "true"
    ELSE IF first2 = nullptr THEN "ub"
    ELSE IF m.value[first1] # m.value[first2] THEN "false"
    ELSE StdEqual(m, m.next_node[first1], m.next_node[first2])

\* bool operator==(const SingleLinkedList& lhs, const SingleLinkedList& rhs)
OperatorEq(m, lhs, rhs) ==
    StdEqual(m, m.next_node[HeadAddr(lhs)], m.next_node[HeadAddr(rhs)])

\* bool operator!=(lhs, rhs) { return !(lhs == rhs); }
OperatorNe(m, lhs, rhs) ==
    LET e == OperatorEq(m, lhs, rhs)
    IN IF e = "true" THEN "false" ELSE IF e = "false" THEN "true" ELSE e

RECURSIVE LexicographicalCompareNoPrefix(_, _, _)
\* std::lexicographical_compare that ends with `return false`
LexicographicalCompareNoPrefix(m, first1, first2) ==
    IF first1 = nullptr \/ first2 = nullptr THEN "false"
    ELSE IF m.value[first1] < m.value[first2] THEN "true"
    ELSE IF m.value[first2] < m.value[first1] THEN "false"
    ELSE LexicographicalCompareNoPrefix(m, m.next_node[first1], m.next_node[first2])

RECURSIVE LexicographicalCompare(_, _, _)
\* std::lexicographical_compare(first1, last1 = end(), first2, last2 = end())
LexicographicalCompare(m, first1, first2) ==
    IF first1 = nullptr \/ first2 = nullptr
    THEN (IF first1 = nullptr /\ first2 # nullptr THEN "true" ELSE "false")
    ELSE IF m.value[first1] < m.value[first2] THEN "true"
    ELSE IF m.value[first2] < m.value[first1] THEN "false"
    ELSE LexicographicalCompare(m, m.next_node[first1], m.next_node[first2])

\* operator! on the result of a comparison
Negate(r) == IF r = "true" THEN "false" ELSE IF r = "false" THEN "true" ELSE r

\* bool operator<(const SingleLinkedList& lhs, const SingleLinkedList& rhs)
OperatorLt(m, lhs, rhs) == LexicographicalCompare(m, begin(m, lhs), begin(m, rhs))

\* bool operator<=(lhs, rhs) { return !(rhs < lhs); }
OperatorLe(m, lhs, rhs) == Negate(OperatorLt(m, rhs, lhs))

\* bool operator>(lhs, rhs) { return rhs < lhs; }
OperatorGt(m, lhs, rhs) == OperatorLt(m, rhs, lhs)

\* bool operator>=(lhs, rhs) { return !(lhs < rhs); }
OperatorGe(m, lhs, rhs) == Negate(OperatorLt(m, lhs, rhs))

\* what a call can produce: its result, or anything when the behaviour is undefined
Outcomes(r) == IF r = "ub" THEN {"true", "false", "crash"} ELSE {r}

\* ---- the arguments of the calls ----

InjSeqs(S, k) == {s \in [1..k -> S] : \A i, j \in 1..k : s[i] = s[j] => i = j}

InitLists == UNION {[1..n -> Values] : n \in 0..MaxLen}

\* the elements whose copy may throw when n elements are copied with the store as it is:
\* 0 stands for no failure, possible only when the free store holds n nodes
FailPoints(m, n) ==
    (IF n <= Cardinality(Free(m)) THEN {0} ELSE {})
        \cup {k \in 1..n : k <= Cardinality(Free(m)) + 1}

\* the addresses the successful `new Node` calls return, in call order
Allocs(m, n, failAt) == InjSeqs(Free(m), IF failAt = 0 THEN n ELSE failAt - 1)

\* the positions a valid iterator into list l can hold, before_begin() included
Positions(m, l) == {before_begin(l)} \cup Range(ChainOf(m, l))

RECURSIVE PushFrontAll(_, _, _, _, _)
\* the client loop `for (v : vals) list.PushFront(v);` from element i on
PushFrontAll(m, this, vals, addrs, i) ==
    IF i > Len(vals) THEN m
    ELSE PushFrontAll(PushFront(m, this, vals[i], addrs[i]), this, vals, addrs, i + 1)

\* the value sequences a client can push while the free store holds the nodes
PushLists(m) == UNION {[1..n -> Values] : n \in 0..Cardinality(Free(m))}

\* ---- the state machine ----

Outcome(op, lhs, rhs, res, size, link) ==
    [op |-> op, lhs |-> lhs, rhs |-> rhs, res |-> res, size |-> size, link |-> link]
NoOutcome == Outcome("none", 0, 0, "", 0, nullptr)

Init ==
    /\ next_node = Mem0.next_node
    /\ value = Mem0.value
    /\ size_ = Mem0.size_
    /\ net = Mem0.net
    /\ outcome = NoOutcome

Store(m) ==
    /\ next_node' = m.next_node
    /\ value' = m.value
    /\ size_' = m.size_
    /\ net' = m.net

DoDefaultCtor(l) ==
    /\ l \notin Live(Mem)
    /\ Store(Construct(Mem, l))
    /\ UNCHANGED outcome

DoInitListCtor(l, vals) ==
    /\ l \notin Live(Mem)
    /\ \E failAt \in FailPoints(Mem, Len(vals)) :
       \E addrs \in Allocs(Mem, Len(vals), failAt) :
          Store(Constructed(InitListConstruct(Mem, l, vals, addrs, failAt), l))
    /\ UNCHANGED outcome

DoCopyCtor(l, other) ==
    /\ l \notin Live(Mem)
    /\ other \in Live(Mem)
    /\ \E failAt \in FailPoints(Mem, Len(ElemsOf(Mem, other))) :
       \E addrs \in Allocs(Mem, Len(ElemsOf(Mem, other)), failAt) :
          Store(Constructed(CopyConstruct(Mem, l, other, addrs, failAt), l))
    /\ UNCHANGED outcome

DoDtor(l) ==
    /\ l \in Live(Mem)
    /\ Store(Destroy(Mem, l))
    /\ UNCHANGED outcome

DoAssign(l, rhs) ==
    /\ l \in Live(Mem)
    /\ rhs \in Live(Mem)
    /\ \E failAt \in (IF l = rhs THEN {0} ELSE FailPoints(Mem, Len(ElemsOf(Mem, rhs)))) :
       \E addrs \in (IF l = rhs THEN {<<>>} ELSE Allocs(Mem, Len(ElemsOf(Mem, rhs)), failAt)) :
          Store(Assign(Mem, l, rhs, addrs, failAt).mem)
    /\ UNCHANGED outcome

DoPushFront(l, val) ==
    /\ l \in Live(Mem)
    /\ \E addr \in Free(Mem) : Store(PushFront(Mem, l, val, addr))
    /\ UNCHANGED outcome

DoPopFront(l) ==
    /\ l \in Live(Mem)
    /\ next_node[HeadAddr(l)] # nullptr                      \* precondition: not empty
    /\ Store(PopFront(Mem, l))
    /\ UNCHANGED outcome

DoClear(l) ==
    /\ l \in Live(Mem)
    /\ Store(Clear(Mem, l))
    /\ UNCHANGED outcome

DoSwap(l, other) ==
    /\ l \in Live(Mem)
    /\ other \in Live(Mem)
    /\ Store(swap(Mem, l, other))
    /\ UNCHANGED outcome

DoInsertAfter(l, val) ==
    /\ l \in Live(Mem)
    /\ \E pos \in Positions(Mem, l) :                        \* precondition
       \E addr \in Free(Mem) : Store(InsertAfter(Mem, l, pos, val, addr))
    /\ UNCHANGED outcome

DoEraseAfter(l) ==
    /\ l \in Live(Mem)
    /\ \E pos \in Positions(Mem, l) :                        \* precondition
          /\ next_node[pos] # nullptr                        \* precondition
          /\ Store(EraseAfter(Mem, l, pos))
    /\ UNCHANGED outcome

Next ==
    \/ \E l \in Lists : DoDefaultCtor(l)
    \/ \E l \in Lists, vals \in InitLists : DoInitListCtor(l, vals)
    \/ \E l, other \in Lists : DoCopyCtor(l, other)
    \/ \E l \in Lists : DoDtor(l)
    \/ \E l, rhs \in Lists : DoAssign(l, rhs)
    \/ \E l \in Lists, val \in Values : DoPushFront(l, val)
    \/ \E l \in Lists : DoPopFront(l)
    \/ \E l \in Lists : DoClear(l)
    \/ \E l, other \in Lists : DoSwap(l, other)
    \/ \E l \in Lists, val \in Values : DoInsertAfter(l, val)
    \/ \E l \in Lists : DoEraseAfter(l)

Spec == Init /\ [][Next]_vars

\* ---- the comparison operators, applied to every pair of lists the constructor can build ----

InitCmp ==
    /\ \E v1, v2 \in InitLists :
       \E a1 \in Allocs(Mem0, Len(v1), 0) :
          LET m1 == InitListConstruct(Mem0, 1, v1, a1, 0).mem
          IN /\ Len(v1) + Len(v2) <= MaxNodes
             /\ \E a2 \in Allocs(m1, Len(v2), 0) :
                   LET m2 == InitListConstruct(m1, 2, v2, a2, 0).mem
                   IN /\ next_node = m2.next_node
                      /\ value = m2.value
                      /\ size_ = m2.size_
                      /\ net = m2.net
    /\ outcome = NoOutcome

DoOperatorEq(lhs, rhs) ==
    /\ lhs \in Live(Mem)
    /\ rhs \in Live(Mem)
    /\ \E res \in Outcomes(OperatorEq(Mem, lhs, rhs)) :
          outcome' = Outcome("==", lhs, rhs, res, 0, nullptr)
    /\ UNCHANGED <<next_node, value, size_, net>>

DoOperatorNe(lhs, rhs) ==
    /\ lhs \in Live(Mem)
    /\ rhs \in Live(Mem)
    /\ \E res \in Outcomes(OperatorNe(Mem, lhs, rhs)) :
          outcome' = Outcome("!=", lhs, rhs, res, 0, nullptr)
    /\ UNCHANGED <<next_node, value, size_, net>>

DoOperatorLt(lhs, rhs) ==
    /\ lhs \in Live(Mem)
    /\ rhs \in Live(Mem)
    /\ \E res \in Outcomes(OperatorLt(Mem, lhs, rhs)) :
          outcome' = Outcome("<", lhs, rhs, res, 0, nullptr)
    /\ UNCHANGED <<next_node, value, size_, net>>

DoOperatorLe(lhs, rhs) ==
    /\ lhs \in Live(Mem)
    /\ rhs \in Live(Mem)
    /\ \E res \in Outcomes(OperatorLe(Mem, lhs, rhs)) :
          outcome' = Outcome("<=", lhs, rhs, res, 0, nullptr)
    /\ UNCHANGED <<next_node, value, size_, net>>

DoOperatorGt(lhs, rhs) ==
    /\ lhs \in Live(Mem)
    /\ rhs \in Live(Mem)
    /\ \E res \in Outcomes(OperatorGt(Mem, lhs, rhs)) :
          outcome' = Outcome(">", lhs, rhs, res, 0, nullptr)
    /\ UNCHANGED <<next_node, value, size_, net>>

DoOperatorGe(lhs, rhs) ==
    /\ lhs \in Live(Mem)
    /\ rhs \in Live(Mem)
    /\ \E res \in Outcomes(OperatorGe(Mem, lhs, rhs)) :
          outcome' = Outcome(">=", lhs, rhs, res, 0, nullptr)
    /\ UNCHANGED <<next_node, value, size_, net>>

NextCmp ==
    \/ \E lhs, rhs \in Lists : DoOperatorEq(lhs, rhs)
    \/ \E lhs, rhs \in Lists : DoOperatorNe(lhs, rhs)
    \/ \E lhs, rhs \in Lists : DoOperatorLt(lhs, rhs)
    \/ \E lhs, rhs \in Lists : DoOperatorLe(lhs, rhs)
    \/ \E lhs, rhs \in Lists : DoOperatorGt(lhs, rhs)
    \/ \E lhs, rhs \in Lists : DoOperatorGe(lhs, rhs)

SpecCmp == InitCmp /\ [][NextCmp]_vars

\* ---- constructors that throw, from every state one constructor call can build ----

InitThrow ==
    /\ \E src \in Lists, v \in InitLists : \E a \in Allocs(Mem0, Len(v), 0) :
          LET m1 == InitListConstruct(Mem0, src, v, a, 0).mem
          IN /\ next_node = m1.next_node
             /\ value = m1.value
             /\ size_ = m1.size_
             /\ net = m1.net
    /\ outcome = NoOutcome

\* the exception leaves the constructor: what the members of the list under construction
\* hold at that moment is recorded, then the storage of the list is given back
DoInitListCtorThrows(l, vals) ==
    /\ l \notin Live(Mem)
    /\ \E failAt \in FailPoints(Mem, Len(vals)) \ {0} :
       \E addrs \in Allocs(Mem, Len(vals), failAt) :
          LET r == InitListConstruct(Mem, l, vals, addrs, failAt)
          IN /\ Store(Constructed(r, l))
             /\ outcome' = Outcome("InitListCtor", l, 0, IF r.threw THEN "throw" ELSE "",
                                   r.mem.size_[l], r.mem.next_node[HeadAddr(l)])

DoCopyCtorThrows(l, other) ==
    /\ l \notin Live(Mem)
    /\ other \in Live(Mem)
    /\ \E failAt \in FailPoints(Mem, Len(ElemsOf(Mem, other))) \ {0} :
       \E addrs \in Allocs(Mem, Len(ElemsOf(Mem, other)), failAt) :
          LET r == CopyConstruct(Mem, l, other, addrs, failAt)
          IN /\ Store(Constructed(r, l))
             /\ outcome' = Outcome("CopyCtor", l, other, IF r.threw THEN "throw" ELSE "",
                                   r.mem.size_[l], r.mem.next_node[HeadAddr(l)])

NextThrow ==
    \/ \E l \in Lists, vals \in InitLists : DoInitListCtorThrows(l, vals)
    \/ \E l, other \in Lists : DoCopyCtorThrows(l, other)

SpecThrow == InitThrow /\ [][NextThrow]_vars

\* ---- Clear() and the destructor statement by statement, on every list one constructor
\* ---- call can build.  While a call runs, outcome holds its frame: lhs is the
\* ---- list, size is GetSize() at the call, rhs counts the PopFront calls made so far
\* ---- and res is "loop" until the call returns

\* a while condition that stops one element early
ClearContinuesPastOne(m, this) ==
    m.next_node[HeadAddr(this)] # nullptr /\ m.next_node[m.next_node[HeadAddr(this)]] # nullptr

\* while (head_.next_node != nullptr)
ClearContinues(m, this) ==
    m.next_node[HeadAddr(this)] # nullptr

Running == outcome.res = "loop"

\* list.Clear() is called
ClearCall(l) ==
    /\ ~Running
    /\ l \in Live(Mem)
    /\ outcome' = Outcome("Clear", l, 0, "loop", GetSizeOf(Mem, l), nullptr)
    /\ UNCHANGED <<next_node, value, size_, net>>

\* the destructor of the list is called: ~SingleLinkedList() { Clear(); }
DtorCall(l) ==
    /\ ~Running
    /\ l \in Live(Mem)
    /\ outcome' = Outcome("~SingleLinkedList", l, 0, "loop", GetSizeOf(Mem, l), nullptr)
    /\ UNCHANGED <<next_node, value, size_, net>>

\* one iteration of the loop: the condition holds, PopFront() runs
ClearLoopStep ==
    /\ Running
    /\ ClearContinues(Mem, outcome.lhs)
    /\ Store(PopFront(Mem, outcome.lhs))
    /\ outcome' = [outcome EXCEPT !.rhs = @ + 1]

\* the condition fails: Clear() returns, and the destructor gives the object back
ClearReturn ==
    /\ Running
    /\ ~ClearContinues(Mem, outcome.lhs)
    /\ outcome' = [outcome EXCEPT !.res = "return"]
    /\ IF outcome.op = "~SingleLinkedList"
       THEN Store(Release(Mem, outcome.lhs))
       ELSE UNCHANGED <<next_node, value, size_, net>>

NextClear ==
    \/ \E l \in Lists : ClearCall(l)
    \/ \E l \in Lists : DtorCall(l)
    \/ ClearLoopStep
    \/ ClearReturn

\* a call that has started runs on: the program is sequential and nothing blocks
SpecClear == InitThrow /\ [][NextClear]_vars /\ WF_vars(ClearLoopStep \/ ClearReturn)

\* ---- observers ----
GetSize(l) == size_[l]
IsEmpty(l) == size_[l] = 0
Chain(l) == ChainOf(Mem, l)
Elems(l) == ElemsOf(Mem, l)

\* ---- helpers used to state the claims ----
InsertAt(s, i, x) == SubSeq(s, 1, i) \o <<x>> \o SubSeq(s, i + 1, Len(s))
RemoveAt(s, i) == SubSeq(s, 1, i - 1) \o SubSeq(s, i + 1, Len(s))
\* how many real nodes of chain c precede and include pos (0 for the sentinel)
IndexOf(c, pos) == IF \E i \in 1..Len(c) : c[i] = pos
                   THEN CHOOSE i \in 1..Len(c) : c[i] = pos ELSE 0
LiveLists == Live(Mem)
DeadLists == Lists \ Live(Mem)
\* the memories the calls of one method on list l can produce from the current state
AfterPushFront(l) == {PushFront(Mem, l, val, addr) : val \in Values, addr \in Free(Mem)}
AfterInsertAfter(l) ==
    {InsertAfter(Mem, l, pos, val, addr) :
        pos \in Positions(Mem, l), val \in Values, addr \in Free(Mem)}
ErasablePositions(l) == {pos \in Positions(Mem, l) : next_node[pos] # nullptr}
AfterEraseAfter(l) == {EraseAfter(Mem, l, pos) : pos \in ErasablePositions(l)}
AfterPopFront(l) == IF next_node[HeadAddr(l)] # nullptr THEN {PopFront(Mem, l)} ELSE {}
AfterMutation(l) ==
    AfterPushFront(l) \cup AfterInsertAfter(l) \cup AfterEraseAfter(l)
        \cup AfterPopFront(l) \cup {Clear(Mem, l)}
\* list o is in m2 what it is now: same nodes, same elements, same count
SameList(m2, o) ==
    /\ ChainOf(m2, o) = Chain(o)
    /\ ElemsOf(m2, o) = Elems(o)
    /\ m2.size_[o] = size_[o]

\* ---- C1 ----
\* C1: in every reachable state GetSize() of a live list equals the number of real
\* nodes reachable from its sentinel, which equals insertions minus removals.
C1_SizeIsChainLength ==
    \A l \in LiveLists : /\ GetSize(l) = Len(Chain(l))
                         /\ GetSize(l) = net[l]

C1_Witness ==
    /\ LiveLists = Lists
    /\ \E l, o \in Lists : GetSize(l) = 2 /\ GetSize(o) = 1

\* ---- C2 ----
\* C2: operator== returns true iff both lists have the same length and pairwise equal
\* elements in traversal order, and operator!= is its negation.
C2_EqualityIffSameSequence ==
    /\ outcome.op = "==" => /\ outcome.res \in {"true", "false"}
                        /\ (outcome.res = "true") = (Elems(outcome.lhs) = Elems(outcome.rhs))
    /\ outcome.op = "!=" => /\ outcome.res \in {"true", "false"}
                        /\ (outcome.res = "true") = (Elems(outcome.lhs) # Elems(outcome.rhs))

\* ---- C3 ----
\* C3: constructing a list from v1..vn yields traversal v1..vn and GetSize() = n; the
\* scratch list of CopyList ends with an empty chain, so that all n nodes of the result
\* are alive after the scratch list was destroyed.
C3_InitListCtorBuildsInOrder ==
    \A l \in DeadLists : \A vals \in InitLists : \A addrs \in Allocs(Mem, Len(vals), 0) :
        LET b == CopyListBody(Construct(Mem, l), l, vals, addrs, 0)
            r == InitListConstruct(Mem, l, vals, addrs, 0)
            m2 == Constructed(r, l)
        IN /\ ~r.threw
           /\ Live(m2) = LiveLists \cup {l}
           /\ ElemsOf(m2, l) = vals
           /\ m2.size_[l] = Len(vals)
           /\ ChainOf(b.mem, TmpCopy) = <<>>
           /\ ChainOf(m2, l) = addrs
           /\ Allocated(m2) = Allocated(Mem) \cup Range(addrs)

C3_Witness ==
    \E l \in DeadLists, o \in LiveLists : \E vals \in InitLists :
        /\ GetSize(o) = 1
        /\ Len(vals) = 2 /\ vals[1] # vals[2]
        /\ \E addrs \in Allocs(Mem, 2, 0) :
              ElemsOf(Constructed(InitListConstruct(Mem, l, vals, addrs, 0), l), l) = vals

\* ---- C4 ----
\* C4: when the copy of the k-th element fails during construction from a sequence or
\* copy construction, every node built so far is destroyed and the list being
\* constructed still has count 0 and an empty sentinel link.
C4_FailedCtorLeavesEmptyState ==
    outcome.res = "throw" =>
        /\ outcome.size = 0
        /\ outcome.link = nullptr
        /\ Allocated(Mem) = UNION {Range(Chain(l)) : l \in LiveLists}

\* ---- C5 ----
\* C5: when copying fails during a = b (a, b distinct), a keeps its nodes, elements and
\* size, b is unchanged and every node of the partial copy is destroyed.
C5_FailedAssignChangesNothing ==
    \A a, b \in LiveLists : a # b =>
        \A failAt \in FailPoints(Mem, Len(Elems(b))) \ {0} :
        \A addrs \in Allocs(Mem, Len(Elems(b)), failAt) :
            LET r == Assign(Mem, a, b, addrs, failAt)
            IN /\ r.threw
               /\ SameList(r.mem, a)
               /\ SameList(r.mem, b)
               /\ Allocated(r.mem) = Allocated(Mem)
               /\ r.mem.next_node = next_node
               /\ r.mem.value = value
               /\ r.mem.size_ = size_

C5_Witness ==
    \E a, b \in LiveLists :
        /\ a # b
        /\ GetSize(b) = 2
        /\ 2 \in FailPoints(Mem, Len(Elems(b)))
        /\ \E addrs \in Allocs(Mem, 2, 2) : Assign(Mem, a, b, addrs, 2).threw

\* ---- C6 ----
\* C6: after a successful a = b, a has b's sequence and size, b is unchanged, a shares no
\* node with b and a's former nodes are destroyed; a = a changes nothing.
C6_AssignCopiesDeeply ==
    \A a, b \in LiveLists :
        IF a = b
        THEN Assign(Mem, a, a, <<>>, 0) = [mem |-> Mem, threw |-> FALSE]
        ELSE \A addrs \in Allocs(Mem, Len(Elems(b)), 0) :
                LET r == Assign(Mem, a, b, addrs, 0)
                IN /\ ~r.threw
                   /\ Live(r.mem) = LiveLists
                   /\ ElemsOf(r.mem, a) = Elems(b)
                   /\ r.mem.size_[a] = size_[b]
                   /\ r.mem.size_[a] = Len(ChainOf(r.mem, a))
                   /\ SameList(r.mem, b)
                   /\ Range(ChainOf(r.mem, a)) \cap Range(ChainOf(r.mem, b)) = {}
                   /\ Range(Chain(a)) \cap Allocated(r.mem) = {}
                   /\ Allocated(r.mem) = (Allocated(Mem) \ Range(Chain(a))) \cup Range(addrs)

C6_Witness ==
    \E a, b \in LiveLists :
        /\ a # b
        /\ GetSize(a) = 1 /\ GetSize(b) = 1
        /\ Elems(a) # Elems(b)
        /\ \E addrs \in Allocs(Mem, 1, 0) : ElemsOf(Assign(Mem, a, b, addrs, 0).mem, a) = Elems(b)

\* ---- C7 ----
\* C7: copy construction yields the source's elements in order in freshly allocated
\* nodes, and PushFront, PopFront, InsertAfter, EraseAfter and Clear on one list leave
\* every other list's elements, size and nodes unchanged.
C7_CopyIsDeep ==
    /\ \A l \in DeadLists, o \in LiveLists : \A addrs \in Allocs(Mem, Len(Elems(o)), 0) :
          LET r == CopyConstruct(Mem, l, o, addrs, 0)
              m2 == Constructed(r, l)
          IN /\ ~r.threw
             /\ Live(m2) = LiveLists \cup {l}
             /\ ElemsOf(m2, l) = Elems(o)
             /\ m2.size_[l] = size_[o]
             /\ ChainOf(m2, l) = addrs
             /\ Range(ChainOf(m2, l)) \cap Allocated(Mem) = {}
             /\ SameList(m2, o)
    /\ \A l \in LiveLists : \A m2 \in AfterMutation(l) :
          \A o \in LiveLists \ {l} : SameList(m2, o)

C7_Witness ==
    /\ LiveLists = Lists
    /\ Elems(1) = Elems(2)
    /\ GetSize(1) = 1
    /\ Range(Chain(1)) \cap Range(Chain(2)) = {}
    /\ \E m2 \in AfterMutation(1) : ElemsOf(m2, 1) # ElemsOf(m2, 2)

\* ---- C8 ----
\* C8: InsertAfter(pos, v) puts a new node holding v right after pos, returns a handle
\* to it, adds exactly 1 to the count and keeps all other elements and their order;
\* InsertAfter(before_begin(), v) makes v the first element.
C8_InsertAfterSplices ==
    \A l \in LiveLists : \A pos \in Positions(Mem, l), val \in Values, addr \in Free(Mem) :
        LET m2 == InsertAfter(Mem, l, pos, val, addr)
            ret == InsertAfterRet(Mem, l, pos, val, addr)
            i == IndexOf(Chain(l), pos)
        IN /\ ret \notin Allocated(Mem)
           /\ ret \in Allocated(m2)
           /\ m2.value[ret] = val
           /\ m2.next_node[pos] = ret
           /\ m2.next_node[ret] = next_node[pos]
           /\ m2.size_[l] = size_[l] + 1
           /\ ChainOf(m2, l) = InsertAt(Chain(l), i, ret)
           /\ ElemsOf(m2, l) = InsertAt(Elems(l), i, val)
           /\ \A n \in Allocated(Mem) : m2.value[n] = value[n]
           /\ pos = before_begin(l) => ElemsOf(m2, l)[1] = val

C8_Witness ==
    \E l \in LiveLists : \E pos \in Positions(Mem, l) \cap Nodes, addr \in Free(Mem) :
        /\ next_node[pos] # nullptr
        /\ Len(ChainOf(InsertAfter(Mem, l, pos, 1, addr), l)) = 3

\* ---- C9 ----
\* C9: EraseAfter(pos) destroys exactly the node after pos, returns a handle to the node
\* that now follows pos (end() if none), subtracts exactly 1 from the count and keeps
\* all other elements and their order; EraseAfter(before_begin()) removes the first
\* element and empties a one-element list.
C9_EraseAfterSplices ==
    \A l \in LiveLists : \A pos \in ErasablePositions(l) :
        LET m2 == EraseAfter(Mem, l, pos)
            ret == EraseAfterRet(Mem, l, pos)
            removed == next_node[pos]
            i == IndexOf(Chain(l), removed)
        IN /\ removed \in Allocated(Mem)
           /\ Allocated(m2) = Allocated(Mem) \ {removed}
           /\ ret = next_node[removed]
           /\ ret = m2.next_node[pos]
           /\ m2.size_[l] = size_[l] - 1
           /\ ChainOf(m2, l) = RemoveAt(Chain(l), i)
           /\ ElemsOf(m2, l) = RemoveAt(Elems(l), i)
           /\ \A n \in Allocated(m2) : m2.value[n] = value[n]
           /\ pos = before_begin(l) => ElemsOf(m2, l) = Tail(Elems(l))
           /\ (pos = before_begin(l) /\ size_[l] = 1) =>
                 (m2.size_[l] = 0 /\ m2.next_node[HeadAddr(l)] = nullptr)

C9_Witness ==
    \E l \in LiveLists : \E pos \in ErasablePositions(l) \cap Nodes :
        /\ EraseAfterRet(Mem, l, pos) # nullptr
        /\ Len(ChainOf(EraseAfter(Mem, l, pos), l)) = 2

\* ---- C10 ----
\* C10: after InsertAfter, PushFront, EraseAfter or PopFront every handle to a node that
\* was not removed still references the same live node of the same list with the same
\* value, and only the removed node's handles dangle.
HandlesKept(m2, removed) ==
    \A h \in Allocated(Mem) :
        IF h \in removed
        THEN h \notin Allocated(m2)
        ELSE /\ h \in Allocated(m2)
             /\ m2.value[h] = value[h]
             /\ Owner(Mem, h) \in LiveLists
             /\ Owner(m2, h) = Owner(Mem, h)

C10_HandlesStayValid ==
    \A l \in LiveLists :
        /\ \A m2 \in AfterPushFront(l) \cup AfterInsertAfter(l) : HandlesKept(m2, {})
        /\ \A pos \in ErasablePositions(l) :
              HandlesKept(EraseAfter(Mem, l, pos), {next_node[pos]})
        /\ \A m2 \in AfterPopFront(l) : HandlesKept(m2, {next_node[HeadAddr(l)]})

C10_Witness ==
    /\ LiveLists = Lists
    /\ \E l, o \in Lists :
          /\ GetSize(l) = 2 /\ GetSize(o) = 1
          /\ \E pos \in ErasablePositions(l) \cap Nodes :
                Cardinality(Allocated(EraseAfter(Mem, l, pos))) = 2

\* ---- C11 ----
\* C11: PushFront of v1..vn in that order on an empty list makes the traversal from
\* begin() to end() read vn, ..., v1 and GetSize() return n; each single PushFront
\* puts its value in front of the elements the list held.
Reverse(s) == [i \in 1..Len(s) |-> s[Len(s) + 1 - i]]

C11_PushFrontReversesOrder ==
    \A l \in LiveLists :
        /\ \A val \in Values, addr \in Free(Mem) :
              LET m2 == PushFront(Mem, l, val, addr)
              IN /\ ElemsOf(m2, l) = <<val>> \o Elems(l)
                 /\ m2.size_[l] = GetSize(l) + 1
        /\ next_node[HeadAddr(l)] = nullptr =>
              \A vals \in PushLists(Mem) : \A addrs \in Allocs(Mem, Len(vals), 0) :
                  LET m2 == PushFrontAll(Mem, l, vals, addrs, 1)
                  IN /\ ElemsOf(m2, l) = Reverse(vals)
                     /\ m2.size_[l] = Len(vals)
                     /\ (m2.next_node[HeadAddr(l)] = nullptr) = (vals = <<>>)

C11_Witness ==
    \E l \in LiveLists :
        /\ next_node[HeadAddr(l)] = nullptr
        /\ Cardinality(Free(Mem)) = MaxNodes
        /\ \E vals \in PushLists(Mem) : \E addrs \in Allocs(Mem, Len(vals), 0) :
              /\ Len(vals) = MaxNodes
              /\ vals[1] # vals[2]
              /\ ElemsOf(PushFrontAll(Mem, l, vals, addrs, 1), l) = Reverse(vals)

\* ---- C12 ----
\* C12: Clear() called in any reachable state leaves the list with IsEmpty() true,
\* GetSize() 0 and begin() = end(); every former real node is destroyed, the sentinel
\* is still in place and nothing else changes.
C12_ClearEmptiesList ==
    \A l \in LiveLists :
        LET m2 == Clear(Mem, l)
        IN /\ m2.size_[l] = 0
           /\ begin(m2, l) = end(m2, l)
           /\ ChainOf(m2, l) = <<>>
           /\ Allocated(m2) = Allocated(Mem) \ Range(Chain(l))
           /\ l \in Live(m2) /\ HeadAddr(l) \in DOMAIN m2.next_node
           /\ Live(m2) = LiveLists
           /\ \A o \in LiveLists \ {l} : SameList(m2, o)

C12_Witness ==
    \E l, o \in LiveLists :
        /\ l # o
        /\ GetSize(l) = 2 /\ GetSize(o) = 1
        /\ Allocated(Clear(Mem, l)) = Range(Chain(o))

\* ---- C13 ----
\* C13: a.swap(b) and swap(a, b) exchange the element sequences and counts of a and b
\* without allocating, copying or destroying a node: a then traverses the very nodes b
\* held and vice versa; a second swap restores both lists and a.swap(a) changes nothing.
C13_SwapExchangesLists ==
    \A a, b \in LiveLists :
        LET m2 == swap(Mem, a, b)
        IN /\ ChainOf(m2, a) = Chain(b) /\ ChainOf(m2, b) = Chain(a)
           /\ ElemsOf(m2, a) = Elems(b) /\ ElemsOf(m2, b) = Elems(a)
           /\ m2.size_[a] = GetSize(b) /\ m2.size_[b] = GetSize(a)
           /\ m2.value = value
           /\ \A n \in Allocated(Mem) : m2.next_node[n] = next_node[n]
           /\ DOMAIN m2.next_node = DOMAIN next_node
           /\ \A o \in LiveLists \ {a, b} : SameList(m2, o)
           /\ swap(m2, a, b) = Mem
           /\ FreeSwap(Mem, a, b) = m2
           /\ a = b => m2 = Mem

C13_Witness ==
    \E a, b \in LiveLists :
        /\ a # b
        /\ GetSize(a) = 2 /\ GetSize(b) = 1
        /\ ChainOf(swap(Mem, a, b), a) = Chain(b)
        /\ ChainOf(swap(Mem, a, b), b) = Chain(a)

\* ---- C14 ----
\* C14: a < b is the lexicographic comparison of the traversal sequences with
\* elementwise < (a strict prefix is less than the longer list); a > b equals b < a,
\* a <= b equals not (b < a) and a >= b equals not (a < b).
LexLess(s, t) ==
    \E k \in 0..Len(s) :
        /\ k <= Len(t)
        /\ \A i \in 1..k : s[i] = t[i]
        /\ \/ k = Len(s) /\ k < Len(t)
           \/ k < Len(s) /\ k < Len(t) /\ s[k + 1] < t[k + 1]

BoolStr(b) == IF b THEN "true" ELSE "false"

C14_OrderingIsLexicographic ==
    LET a == Elems(outcome.lhs)
        b == Elems(outcome.rhs)
    IN /\ outcome.op = "<"  => outcome.res = BoolStr(LexLess(a, b))
       /\ outcome.op = ">"  => outcome.res = BoolStr(LexLess(b, a))
       /\ outcome.op = "<=" => outcome.res = BoolStr(~LexLess(b, a))
       /\ outcome.op = ">=" => outcome.res = BoolStr(~LexLess(a, b))

C14_Witness ==
    /\ outcome.op = "<"
    /\ outcome.res = "true"
    /\ Len(Elems(outcome.lhs)) = 1
    /\ Len(Elems(outcome.rhs)) = 2
    /\ Elems(outcome.lhs)[1] = Elems(outcome.rhs)[1]

\* ---- C15 ----
\* C15: for every pair of lists a and b exactly one of a < b, a == b, b < a holds,
\* a <= b holds iff a < b or a == b, and a == b holds iff b == a.
C15_ComparisonsConsistent ==
    \A a, b \in LiveLists :
        \A eq \in Outcomes(OperatorEq(Mem, a, b)), qe \in Outcomes(OperatorEq(Mem, b, a)) :
            LET lt == OperatorLt(Mem, a, b)
                gt == OperatorLt(Mem, b, a)
                le == OperatorLe(Mem, a, b)
            IN /\ eq \in {"true", "false"}
               /\ Cardinality({i \in 1..3 : <<lt, eq, gt>>[i] = "true"}) = 1
               /\ (le = "true") = (lt = "true" \/ eq = "true")
               /\ eq = qe

\* ---- C16 ----
\* C16: in every reachable state the chain of each list is finite and acyclic and ends
\* in an empty link, every real node is pointed to by exactly one link (of one node or
\* of one sentinel), and no node is reachable from the sentinels of two lists.
LinksTo(n) == {p \in DOMAIN next_node : next_node[p] = n}

C16_ChainsAcyclicAndExclusive ==
    /\ \A p \in DOMAIN next_node : next_node[p] \in Allocated(Mem) \cup {nullptr}
    /\ \A l \in LiveLists :
          LET c == Chain(l)
              last == IF c = <<>> THEN HeadAddr(l) ELSE c[Len(c)]
          IN /\ Len(c) <= MaxNodes
             /\ \A i, j \in 1..Len(c) : c[i] = c[j] => i = j
             /\ Range(c) \subseteq Allocated(Mem)
             /\ next_node[last] = nullptr
    /\ \A n \in Allocated(Mem) : Cardinality(LinksTo(n)) = 1
    /\ \A l, o \in LiveLists : l # o => Range(Chain(l)) \cap Range(Chain(o)) = {}

C16_Witness ==
    /\ LiveLists = Lists
    /\ Cardinality(Allocated(Mem)) = MaxNodes
    /\ \E l, o \in Lists :
          /\ Len(Chain(l)) = 2 /\ Len(Chain(o)) = 1
          /\ Chain(l)[1] > Chain(l)[2]

\* ---- C17 ----
\* C17: PushFront(v) or InsertAfter(before_begin(), v) followed by PopFront() or
\* EraseAfter(before_begin()) restores the element sequence and the size of the list;
\* PopFront() on a non-empty list has exactly the effect of EraseAfter(before_begin()).
FrontInsertions(l) ==
    {PushFront(Mem, l, val, addr) : val \in Values, addr \in Free(Mem)}
        \cup {InsertAfter(Mem, l, before_begin(l), val, addr) : val \in Values, addr \in Free(Mem)}

FrontRemovals(m, l) == {PopFront(m, l), EraseAfter(m, l, before_begin(l))}

C17_FrontInsertRemoveInverse ==
    \A l \in LiveLists :
        /\ \A m1 \in FrontInsertions(l) :
              /\ Len(ElemsOf(m1, l)) = Len(Elems(l)) + 1
              /\ \A m2 \in FrontRemovals(m1, l) :
                    /\ ElemsOf(m2, l) = Elems(l)
                    /\ ChainOf(m2, l) = Chain(l)
                    /\ m2.size_[l] = GetSize(l)
                    /\ m2 = Mem
        /\ begin(Mem, l) # end(Mem, l) =>
              /\ PopFront(Mem, l) = EraseAfter(Mem, l, before_begin(l))
              /\ ElemsOf(PopFront(Mem, l), l) = Tail(Elems(l))
              /\ PopFront(Mem, l).size_[l] = GetSize(l) - 1

C17_Witness ==
    \E l \in LiveLists :
        /\ GetSize(l) = 2
        /\ Elems(l)[1] # Elems(l)[2]
        /\ \E m1 \in FrontInsertions(l) :
              /\ ElemsOf(m1, l)[1] # Elems(l)[1]
              /\ PopFront(m1, l) = Mem

\* ---- C18 ----
\* C18: no node is leaked or destroyed twice: in every reachable state every node that
\* was allocated and not yet destroyed is reachable from the sentinel of exactly one
\* live list, and once every list has been destroyed no allocated node remains.
RECURSIVE SumOver(_, _)
SumOver(f, S) ==
    IF S = {} THEN 0
    ELSE LET x == CHOOSE y \in S : TRUE IN f[x] + SumOver(f, S \ {x})

HoldersOf(n) == {l \in LiveLists : n \in Range(Chain(l))}

C18_NoLeakNoDoubleFree ==
    /\ \A n \in Allocated(Mem) : Cardinality(HoldersOf(n)) = 1
    /\ DOMAIN next_node = Allocated(Mem) \cup {HeadAddr(l) : l \in LiveLists}
    /\ Cardinality(Allocated(Mem)) = SumOver(net, LiveLists)
    /\ LiveLists = {} => Allocated(Mem) = {}
    /\ \A l \in LiveLists :
          /\ Allocated(Destroy(Mem, l)) = Allocated(Mem) \ Range(Chain(l))
          /\ Live(Destroy(Mem, l)) = LiveLists \ {l}
    /\ Allocated(DestroyAll(Mem)) = {}
    /\ DestroyAll(Mem) = Mem0

C18_Witness ==
    /\ LiveLists = Lists
    /\ \E l, o \in Lists :
          /\ GetSize(l) = 2 /\ GetSize(o) = 1
          /\ Allocated(Destroy(Mem, l)) = Range(Chain(o))
    /\ Allocated(DestroyAll(Mem)) = {}

\* ---- C19 ----
\* C19: Clear() (and the destructor) terminates after exactly GetSize() removals; each
\* PopFront it performs is made with a non-empty sentinel link, so the precondition of
\* EraseAfter is never violated, also on an already empty list.
ClearFrameOk ==
    outcome.op \in {"Clear", "~SingleLinkedList"} =>
        LET l == outcome.lhs
        IN /\ outcome.rhs <= outcome.size
           /\ Running =>
                 /\ Len(Chain(l)) = outcome.size - outcome.rhs
                 /\ GetSize(l) = outcome.size - outcome.rhs
                 /\ ClearContinues(Mem, l) =>
                       /\ next_node[before_begin(l)] \in Allocated(Mem)
                       /\ before_begin(l) \in ErasablePositions(l)
           /\ outcome.res = "return" =>
                 /\ outcome.rhs = outcome.size
                 /\ outcome.op = "Clear" => begin(Mem, l) = end(Mem, l) /\ GetSize(l) = 0
                 /\ outcome.op = "~SingleLinkedList" => l \notin LiveLists

C19_ClearTerminates ==
    /\ []ClearFrameOk
    /\ Running ~> (outcome.res = "return")

C19_Witness ==
    /\ outcome.op = "Clear"
    /\ outcome.res = "return"
    /\ outcome.size = MaxLen
    /\ outcome.rhs = MaxLen
    /\ outcome.lhs \in LiveLists
    /\ Allocated(Mem) = {}

\* ---- C20 ----
\* C20: swap exchanges the sentinel links and the counts, never the sentinels: after
\* a.swap(b) a handle taken from a.before_begin() still references a's sentinel, so
\* inserting after it inserts at the front of a's new contents; a handle to a real node
\* of a references a node of b's chain, and a.InsertAfter or a.EraseAfter with it makes
\* the counts of a and b disagree with their chain lengths.  (size_ is a size_t: a
\* count of -1 stands for the wrapped value, which disagrees with every chain length.)
CountsAgree(m, l) == m.size_[l] = Len(ChainOf(m, l))

C20_SwapKeepsSentinels ==
    \A a, b \in LiveLists : a # b =>
        LET m2 == swap(Mem, a, b)
        IN /\ Owner(m2, before_begin(a)) = a
           /\ m2.next_node[before_begin(a)] = next_node[before_begin(b)]
           /\ CountsAgree(m2, a) /\ CountsAgree(m2, b)
           /\ \A val \in Values, addr \in Free(Mem) :
                 LET m3 == InsertAfter(m2, a, before_begin(a), val, addr)
                 IN /\ ElemsOf(m3, a) = <<val>> \o Elems(b)
                    /\ CountsAgree(m3, a) /\ CountsAgree(m3, b)
           /\ \A n \in Range(Chain(a)) :
                 /\ Owner(m2, n) = b
                 /\ n \notin Range(ChainOf(m2, a))
                 /\ \A val \in Values, addr \in Free(Mem) :
                       LET m3 == InsertAfter(m2, a, n, val, addr)
                       IN /\ ChainOf(m3, a) = Chain(b)
                          /\ Len(ChainOf(m3, b)) = Len(Chain(a)) + 1
                          /\ m3.size_[a] = Len(ChainOf(m3, a)) + 1
                          /\ m3.size_[b] = Len(ChainOf(m3, b)) - 1
                          /\ ~CountsAgree(m3, a) /\ ~CountsAgree(m3, b)
                 /\ m2.next_node[n] # nullptr =>
                       LET m3 == EraseAfter(m2, a, n)
                       IN /\ ChainOf(m3, a) = Chain(b)
                          /\ Len(ChainOf(m3, b)) = Len(Chain(a)) - 1
                          /\ m3.size_[a] = Len(ChainOf(m3, a)) - 1
                          /\ m3.size_[b] = Len(ChainOf(m3, b)) + 1
                          /\ ~CountsAgree(m3, a) /\ ~CountsAgree(m3, b)

C20_Witness ==
    \E a, b \in LiveLists :
        /\ a # b
        /\ GetSize(a) = 2 /\ GetSize(b) = 0
        /\ \E addr \in Free(Mem) :
              LET m2 == swap(Mem, a, b)
                  n == Chain(a)[1]
              IN /\ ~CountsAgree(InsertAfter(m2, a, n, 1, addr), b)
                 /\ ~CountsAgree(EraseAfter(m2, a, n), a)
                 /\ ElemsOf(InsertAfter(m2, a, before_begin(a), 1, addr), a) = <<1>>

====
